---- MODULE Spec2Model ----
(***************************************************************************)
(* Payment-instruction parser and transaction resolver.                    *)
(*                                                                         *)
(* JavaScript strings are TLA+ strings (indexed with SubSeq), numbers are  *)
(* integers.  A JavaScript value that may be null is a sequence of length  *)
(* at most one: Null is << >> and the value v is << v >>.  NaN is a        *)
(* sequence of length two, so that it differs from every number and from   *)
(* null.  Array positions are 0-based in the source and 1-based here:      *)
(* words[i] of the source is words[i + 1].                                 *)
(***************************************************************************)
EXTENDS Integers, Sequences, FiniteSets, TLC

VARIABLES
  instruction,   \* payload.instruction, the raw instruction string
  accounts,      \* payload.accounts, the caller's account list
  now,           \* the host clock: hours since 1970-01-01T00:00Z
  tzOffset,      \* the host time zone: local time minus UTC, in hours
  wordList,      \* the words parseInstruction split the instruction into
  parseResult,   \* what parseInstruction returned
  resolved,      \* what processTransaction returned
  outcome,       \* what processTransactionService returned
  httpResponse,  \* what the endpoint handler returned
  pc             \* which call of the request comes next

vars ==
  << instruction, accounts, now, tzOffset, wordList, parseResult, resolved, outcome, httpResponse, pc >>

Null == << >>

Some(v) == << v >>

NaN == << "NaN", "NaN" >>

\* str[i] of the source, 1-based
Ch(s, i) == SubSeq(s, i, i)

StrTail(s) == SubSeq(s, 2, Len(s))

LowerAlpha == "abcdefghijklmnopqrstuvwxyz"

UpperAlpha == "ABCDEFGHIJKLMNOPQRSTUVWXYZ"

DigitChars == "0123456789"

LowerChars == { Ch(LowerAlpha, i) : i \in 1..26 }

UpperChars == { Ch(UpperAlpha, i) : i \in 1..26 }

DigitSet == { Ch(DigitChars, i) : i \in 1..10 }

UpperOf == [ c \in LowerChars |-> Ch(UpperAlpha, CHOOSE i \in 1..26 : Ch(LowerAlpha, i) = c) ]

DigitValues == [ c \in DigitSet |-> (CHOOSE i \in 1..10 : Ch(DigitChars, i) = c) - 1 ]

IsLower(c) == c \in LowerChars

IsUpper(c) == c \in UpperChars

IsDigit(c) == c \in DigitSet

DigitVal(c) == DigitValues[c]

UpChar(c) == IF IsLower(c) THEN UpperOf[c] ELSE c

RECURSIVE toUpperCase(_)
toUpperCase(s) == IF s = "" THEN "" ELSE UpChar(Ch(s, 1)) \o toUpperCase(StrTail(s))

\* characters String.prototype.trim and parseInt skip
TrimChars == {" ", "\t", "\n", "\r", "\f"}

RECURSIVE TrimLeft(_)
TrimLeft(s) == IF s # "" /\ Ch(s, 1) \in TrimChars THEN TrimLeft(StrTail(s)) ELSE s

RECURSIVE TrimRight(_)
TrimRight(s) ==
  IF s # "" /\ Ch(s, Len(s)) \in TrimChars THEN TrimRight(SubSeq(s, 1, Len(s) - 1)) ELSE s

trim(s) == TrimRight(TrimLeft(s))

RECURSIVE DigitPrefix(_, _, _)
\* value of the longest run of digits of s starting at i, NaN when empty
DigitPrefix(s, i, acc) ==
  IF i <= Len(s) /\ IsDigit(Ch(s, i))
  THEN DigitPrefix(s, i + 1, Some((IF acc = NaN THEN 0 ELSE acc[1]) * 10 + DigitVal(Ch(s, i))))
  ELSE acc

\* parseInt(str, 10): leading white space, an optional sign, then digits
parseInt(str) ==
  LET t == TrimLeft(str)
      neg == t # "" /\ Ch(t, 1) = "-"
      signed == t # "" /\ Ch(t, 1) \in {"-", "+"}
      mag == DigitPrefix(t, IF signed THEN 2 ELSE 1, NaN)
  IN IF mag = NaN THEN NaN ELSE IF neg THEN Some(0 - mag[1]) ELSE mag

RECURSIVE NatToString(_)
NatToString(n) ==
  IF n < 10 THEN Ch(DigitChars, n + 1)
  ELSE NatToString(n \div 10) \o Ch(DigitChars, (n % 10) + 1)

\* Number.prototype.toString of an integer
toString(n) == IF n < 0 THEN "-" \o NatToString(0 - n) ELSE NatToString(n)

\* variant: the at sign is not allowed
isValidAccountIdChar_noAt(c) == IsLower(c) \/ IsUpper(c) \/ IsDigit(c) \/ c \in {"-", "."}

isValidAccountIdChar(c) == IsLower(c) \/ IsUpper(c) \/ IsDigit(c) \/ c \in {"-", ".", "@"}

\* variant: any identifier that is there is valid
isValidAccountId_present(accountId) == accountId # Null

isValidAccountId(accountId) ==
  /\ accountId # Null
  /\ \A i \in 1..Len(accountId[1]) : isValidAccountIdChar(Ch(accountId[1], i))

\* variant: without rendering the parsed number back
isValidAmount_noRoundTrip(amountStr) ==
  /\ amountStr # Null
  /\ LET amount == parseInt(amountStr[1])
     IN ~(amount = NaN \/ amount[1] <= 0)

isValidAmount(amountStr) ==
  /\ amountStr # Null
  /\ LET amount == parseInt(amountStr[1])
     IN ~(amount = NaN \/ amount[1] <= 0 \/ toString(amount[1]) # amountStr[1])

\* variant: the missing-keyword code is its own key
STATUS_CODES_keyed ==
  [ SUCCESSFUL |-> "AP00", PENDING |-> "AP02", INVALID_AMOUNT |-> "AM01",
    CURRENCY_MISMATCH |-> "CU01", UNSUPPORTED_CURRENCY |-> "CU02",
    INSUFFICIENT_FUNDS |-> "AC01", SAME_ACCOUNTS |-> "AC02", ACCOUNT_NOT_FOUND |-> "AC03",
    INVALID_ACCOUNT_ID |-> "AC04", INVALID_DATE_FORMAT |-> "DT01",
    MISSING_KEYWORD |-> "MISSING_KEYWORD", INVALID_KEYWORD_ORDER |-> "SY02",
    MALFORMED_INSTRUCTION |-> "SY03" ]

STATUS_CODES ==
  [ SUCCESSFUL |-> "AP00", PENDING |-> "AP02", INVALID_AMOUNT |-> "AM01",
    CURRENCY_MISMATCH |-> "CU01", UNSUPPORTED_CURRENCY |-> "CU02",
    INSUFFICIENT_FUNDS |-> "AC01", SAME_ACCOUNTS |-> "AC02", ACCOUNT_NOT_FOUND |-> "AC03",
    INVALID_ACCOUNT_ID |-> "AC04", INVALID_DATE_FORMAT |-> "DT01", MISSING_KEYWORD |-> "SY01",
    INVALID_KEYWORD_ORDER |-> "SY02", MALFORMED_INSTRUCTION |-> "SY03" ]

SUPPORTED_CURRENCIES == { "NGN", "USD", "GBP", "GHS" }

\* The message catalogue is an external collaborator: a message is its key.
PaymentInstructionsMessages ==
  [ k \in { "MISSING_KEYWORD", "INVALID_AMOUNT", "INVALID_ORDER", "DEBIT_ACCOUNT_INVALID",
            "CREDIT_ACCOUNT_INVALID", "SAME_ACCOUNTS", "INVALID_DATE", "DEBIT_ACCOUNT_NOT_FOUND",
            "CREDIT_ACCOUNT_NOT_FOUND", "UNSUPPORTED_CURRENCY", "CURRENCY_MISMATCH",
            "INSUFFICIENT_FUNDS", "MALFORMED_INSTRUCTION", "TRANSACTION_SUCCESS",
            "TRANSACTION_PENDING", "INVALID_PAYLOAD" } |-> k ]

(***************************************************************************)
(* Dates.  A Date is its calendar fields in the host time zone and its     *)
(* time value, here in hours since the epoch.                              *)
(***************************************************************************)
HoursPerDay == 24

\* days from 1970-01-01 to the proleptic Gregorian date y-m-d (m in 1..12)
DaysFromCivil(y, m, d) ==
  LET yy == IF m <= 2 THEN y - 1 ELSE y
      era == yy \div 400
      yoe == yy - era * 400
      mp == IF m > 2 THEN m - 3 ELSE m + 9
      doy == (153 * mp + 2) \div 5 + d - 1
      doe == yoe * 365 + yoe \div 4 - yoe \div 100 + doy
  IN era * 146097 + doe - 719468

\* new Date(year, monthIndex, day): local midnight; years 0..99 mean 1900..1999
NewDate(year, monthIndex, day) ==
  LET fullYear == IF year >= 0 /\ year <= 99 THEN 1900 + year ELSE year
  IN [ fullYear |-> fullYear, month |-> monthIndex, date |-> day,
       time |-> DaysFromCivil(fullYear, monthIndex + 1, day) * HoursPerDay - tzOffset ]

RECURSIVE SplitFrom(_, _, _, _)
SplitFrom(s, sep, i, cur) ==
  IF i > Len(s) THEN << cur >>
  ELSE IF Ch(s, i) = sep THEN << cur >> \o SplitFrom(s, sep, i + 1, "")
  ELSE SplitFrom(s, sep, i + 1, cur \o Ch(s, i))

\* String.prototype.split with a one-character separator
split(s, sep) == SplitFrom(s, sep, 1, "")

daysInMonth == << 31, 28, 31, 30, 31, 30, 31, 31, 30, 31, 30, 31 >>

isLeapYear(year) == (year % 4 = 0 /\ year % 100 # 0) \/ year % 400 = 0

parseDate(dateStr) ==
  IF dateStr = Null \/ dateStr[1] = "" \/ Len(dateStr[1]) # 10 THEN Null
  ELSE IF Ch(dateStr[1], 5) # "-" \/ Ch(dateStr[1], 8) # "-" THEN Null
  ELSE LET parts == split(dateStr[1], "-") IN
    IF Len(parts) # 3 THEN Null
    ELSE LET year == parseInt(parts[1])
             month == parseInt(parts[2])
             day == parseInt(parts[3]) IN
      IF year = NaN \/ month = NaN \/ day = NaN THEN Null
      ELSE IF month[1] < 1 \/ month[1] > 12 \/ day[1] < 1 THEN Null
      ELSE LET dim == IF isLeapYear(year[1]) /\ month[1] = 2 THEN 29 ELSE daysInMonth[month[1]] IN
        IF day[1] > dim THEN Null
        ELSE LET date == NewDate(year[1], month[1] - 1, day[1]) IN
          IF date.fullYear = year[1] /\ date.month = month[1] - 1 /\ date.date = day[1]
          THEN Some(date) ELSE Null

\* variant: the current instant instead of the start of the current UTC date
getCurrentUTCDate_instant == [ time |-> now ]

\* midnight UTC of the current UTC calendar date
getCurrentUTCDate == [ time |-> (now \div HoursPerDay) * HoursPerDay ]

\* variant: the comparison the wrong way round
isFutureDate_reversed(executeDate, currentDate) == executeDate.time < currentDate.time

isFutureDate(executeDate, currentDate) == executeDate.time > currentDate.time

(***************************************************************************)
(* Tokens                                                                  *)
(***************************************************************************)
RECURSIVE SplitLoop_noCR(_, _, _, _)
\* variant: a carriage return does not end a word
SplitLoop_noCR(trimmed, i, currentWord, result) ==
  IF i > Len(trimmed)
  THEN IF Len(currentWord) > 0 THEN Append(result, currentWord) ELSE result
  ELSE IF Ch(trimmed, i) \in { " ", "\t", "\n" }
       THEN IF Len(currentWord) > 0
            THEN SplitLoop_noCR(trimmed, i + 1, "", Append(result, currentWord))
            ELSE SplitLoop_noCR(trimmed, i + 1, currentWord, result)
       ELSE SplitLoop_noCR(trimmed, i + 1, currentWord \o Ch(trimmed, i), result)

RECURSIVE SplitLoop(_, _, _, _)
SplitLoop(trimmed, i, currentWord, result) ==
  IF i > Len(trimmed)
  THEN IF Len(currentWord) > 0 THEN Append(result, currentWord) ELSE result
  ELSE IF Ch(trimmed, i) \in { " ", "\t", "\n", "\r" }
       THEN IF Len(currentWord) > 0
            THEN SplitLoop(trimmed, i + 1, "", Append(result, currentWord))
            ELSE SplitLoop(trimmed, i + 1, currentWord, result)
       ELSE SplitLoop(trimmed, i + 1, currentWord \o Ch(trimmed, i), result)

splitByWhitespace(str) == IF str = "" THEN << >> ELSE SplitLoop(trim(str), 1, "", << >>)

\* words[i] || null
WordAt(words, i) == IF i < Len(words) THEN Some(words[i + 1]) ELSE Null

\* a TypeError thrown by a property access on undefined, in place of a returned value
TypeError == [ thrown |-> "TypeError" ]

Threw(value) == "thrown" \in DOMAIN value

\* words[index] is undefined (index counts from 0)
Undefined(words, index) == index >= Len(words)

\* variant: one word fewer is enough
hasEnoughWords_offByOne(words, minLength) == Len(words) >= minLength - 1

hasEnoughWords(words, minLength) == Len(words) >= minLength

hasValidFirstWord(firstWord) == firstWord = "DEBIT" \/ firstWord = "CREDIT"

\* variant: FROM compared as written
hasValidFromAccountKeywords_asWritten(words) ==
  words[4] = "FROM" /\ toUpperCase(words[5]) = "ACCOUNT"

hasValidFromAccountKeywords(words) ==
  toUpperCase(words[4]) = "FROM" /\ toUpperCase(words[5]) = "ACCOUNT"

\* variant: the keywords of the other form
hasValidToAccountKeywords_asFrom(words) ==
  toUpperCase(words[4]) = "FROM" /\ toUpperCase(words[5]) = "ACCOUNT"

hasValidToAccountKeywords(words) ==
  toUpperCase(words[4]) = "TO" /\ toUpperCase(words[5]) = "ACCOUNT"

hasValidForCreditToAccountKeywords(words) ==
  /\ toUpperCase(words[7]) = "FOR"
  /\ toUpperCase(words[8]) = "CREDIT"
  /\ toUpperCase(words[9]) = "TO"
  /\ toUpperCase(words[10]) = "ACCOUNT"

hasValidForDebitFromAccountKeywords(words) ==
  /\ toUpperCase(words[7]) = "FOR"
  /\ toUpperCase(words[8]) = "DEBIT"
  /\ toUpperCase(words[9]) = "FROM"
  /\ toUpperCase(words[10]) = "ACCOUNT"

\* words[i].toUpperCase() on an undefined word, in the order the helper reads the words
hasValidFromAccountKeywordsThrows(words) ==
  Undefined(words, 3) \/ (toUpperCase(words[4]) = "FROM" /\ Undefined(words, 4))

hasValidToAccountKeywordsThrows(words) ==
  Undefined(words, 3) \/ (toUpperCase(words[4]) = "TO" /\ Undefined(words, 4))

hasValidForCreditToAccountKeywordsThrows(words) ==
  \/ Undefined(words, 6)
  \/ /\ toUpperCase(words[7]) = "FOR"
     /\ \/ Undefined(words, 7)
        \/ /\ toUpperCase(words[8]) = "CREDIT"
           /\ \/ Undefined(words, 8)
              \/ (toUpperCase(words[9]) = "TO" /\ Undefined(words, 9))

hasValidForDebitFromAccountKeywordsThrows(words) ==
  \/ Undefined(words, 6)
  \/ /\ toUpperCase(words[7]) = "FOR"
     /\ \/ Undefined(words, 7)
        \/ /\ toUpperCase(words[8]) = "DEBIT"
           /\ \/ Undefined(words, 8)
              \/ (toUpperCase(words[9]) = "FROM" /\ Undefined(words, 9))

\* variant: identifiers compared with the wrong operand
areSameAccounts_self(debitAccount, creditAccount) == debitAccount # debitAccount

areSameAccounts(debitAccount, creditAccount) == debitAccount = creditAccount

hasValidOnDate(words, currentIndex) ==
  currentIndex < Len(words) /\ toUpperCase(words[currentIndex + 1]) = "ON"

\* variant: words after the last expected one are not looked at
hasExtraWords_never(words, currentIndex) == FALSE

hasExtraWords(words, currentIndex) == currentIndex < Len(words)

(***************************************************************************)
(* Parse results                                                           *)
(***************************************************************************)
ParseError(reason, code) ==
  [ status |-> "failed", status_reason |-> PaymentInstructionsMessages[reason], status_code |-> code ]

\* variant: what was parsed so far is not handed back
createMissingKeywordError_noData(data) ==
  [ success |-> FALSE,
    error |-> ParseError("MISSING_KEYWORD", STATUS_CODES.MISSING_KEYWORD) ]

createMissingKeywordError(data) ==
  [ success |-> FALSE, data |-> data,
    error |-> ParseError("MISSING_KEYWORD", STATUS_CODES.MISSING_KEYWORD) ]

createInvalidAmountError(data, amountStr) ==
  [ success |-> FALSE,
    data |-> [ data EXCEPT !.amount = Null,
                           !.currency = IF data.currency # Null
                                        THEN Some(toUpperCase(data.currency[1])) ELSE Null ],
    error |-> ParseError("INVALID_AMOUNT", STATUS_CODES.INVALID_AMOUNT) ]

createInvalidKeywordOrderError(data) ==
  [ success |-> FALSE, data |-> data,
    error |-> ParseError("INVALID_ORDER", STATUS_CODES.INVALID_KEYWORD_ORDER) ]

\* variant: the two roles exchanged
createInvalidAccountIdError_swapped(data, isDebitAccount) ==
  [ success |-> FALSE, data |-> data,
    error |-> ParseError(IF isDebitAccount THEN "CREDIT_ACCOUNT_INVALID" ELSE "DEBIT_ACCOUNT_INVALID",
                         STATUS_CODES.INVALID_ACCOUNT_ID) ]

createInvalidAccountIdError(data, isDebitAccount) ==
  [ success |-> FALSE, data |-> data,
    error |-> ParseError(IF isDebitAccount THEN "DEBIT_ACCOUNT_INVALID" ELSE "CREDIT_ACCOUNT_INVALID",
                         STATUS_CODES.INVALID_ACCOUNT_ID) ]

createSameAccountsError(data) ==
  [ success |-> FALSE, data |-> data,
    error |-> ParseError("SAME_ACCOUNTS", STATUS_CODES.SAME_ACCOUNTS) ]

\* variant: the date token is not handed back
createInvalidDateError_noDate(data) ==
  [ success |-> FALSE, data |-> [ data EXCEPT !.executeBy = Null ],
    error |-> ParseError("INVALID_DATE", STATUS_CODES.INVALID_DATE_FORMAT) ]

createInvalidDateError(data) ==
  [ success |-> FALSE, data |-> data,
    error |-> ParseError("INVALID_DATE", STATUS_CODES.INVALID_DATE_FORMAT) ]

createMalformedInstructionError ==
  [ success |-> FALSE,
    error |-> ParseError("MALFORMED_INSTRUCTION", STATUS_CODES.MALFORMED_INSTRUCTION) ]

createSuccessResponse(data) == [ success |-> TRUE, data |-> data ]

(***************************************************************************)
(* The two grammars                                                        *)
(***************************************************************************)
parseDebitInstruction(words) ==
  LET amountStr == WordAt(words, 1)
      currency == IF WordAt(words, 2) # Null THEN Some(toUpperCase(words[3])) ELSE Null
      debitAccount == WordAt(words, 5)
      creditAccount == WordAt(words, 10)
      parsedData == [ type |-> Some("DEBIT"),
                      amount |-> IF amountStr # Null THEN parseInt(amountStr[1]) ELSE Null,
                      currency |-> currency,
                      debitAccount |-> debitAccount,
                      creditAccount |-> creditAccount,
                      executeBy |-> Null ]
  IN
  IF ~hasEnoughWords(words, 6) THEN createMissingKeywordError(parsedData)
  ELSE IF amountStr = Null THEN createInvalidAmountError(parsedData, amountStr)
  ELSE IF ~isValidAmount(amountStr)
       THEN createInvalidAmountError([ parsedData EXCEPT !.amount = Null ], amountStr)
  ELSE IF hasEnoughWords(words, 5) /\ hasValidFromAccountKeywordsThrows(words) THEN TypeError
  ELSE IF hasEnoughWords(words, 5) /\ ~hasValidFromAccountKeywords(words)
       THEN createInvalidKeywordOrderError(parsedData)
  ELSE IF debitAccount # Null /\ ~isValidAccountId(debitAccount)
       THEN createInvalidAccountIdError(parsedData, TRUE)
  ELSE IF hasEnoughWords(words, 10) /\ hasValidForCreditToAccountKeywordsThrows(words)
       THEN TypeError
  ELSE IF hasEnoughWords(words, 10) /\ ~hasValidForCreditToAccountKeywords(words)
       THEN createInvalidKeywordOrderError(parsedData)
  ELSE IF creditAccount # Null /\ ~isValidAccountId(creditAccount)
       THEN createInvalidAccountIdError(parsedData, FALSE)
  ELSE IF debitAccount # Null /\ creditAccount # Null /\ areSameAccounts(debitAccount, creditAccount)
       THEN createSameAccountsError(parsedData)
  ELSE IF ~hasEnoughWords(words, 11) THEN createMissingKeywordError(parsedData)
  ELSE IF hasValidOnDate(words, 11)
       THEN IF 12 >= Len(words)
            THEN createInvalidDateError([ parsedData EXCEPT !.executeBy = Null ])
            ELSE LET dateStr == Some(words[13]) IN
                 IF parseDate(dateStr) = Null
                 THEN createInvalidDateError([ parsedData EXCEPT !.executeBy = dateStr ])
                 ELSE IF hasExtraWords(words, 13)
                      THEN createInvalidKeywordOrderError([ parsedData EXCEPT !.executeBy = dateStr ])
                      ELSE createSuccessResponse([ parsedData EXCEPT !.executeBy = dateStr ])
       ELSE IF hasExtraWords(words, 11)
            THEN createInvalidKeywordOrderError([ parsedData EXCEPT !.executeBy = Null ])
            ELSE createSuccessResponse([ parsedData EXCEPT !.executeBy = Null ])

parseCreditInstruction(words) ==
  LET amountStr == WordAt(words, 1)
      currency == IF WordAt(words, 2) # Null THEN Some(toUpperCase(words[3])) ELSE Null
      creditAccount == WordAt(words, 5)
      debitAccount == WordAt(words, 10)
      parsedData == [ type |-> Some("CREDIT"),
                      amount |-> IF amountStr # Null THEN parseInt(amountStr[1]) ELSE Null,
                      currency |-> currency,
                      debitAccount |-> debitAccount,
                      creditAccount |-> creditAccount,
                      executeBy |-> Null ]
  IN
  IF ~hasEnoughWords(words, 6) THEN createMissingKeywordError(parsedData)
  ELSE IF amountStr = Null THEN createInvalidAmountError(parsedData, amountStr)
  ELSE IF ~isValidAmount(amountStr)
       THEN createInvalidAmountError([ parsedData EXCEPT !.amount = Null ], amountStr)
  ELSE IF hasEnoughWords(words, 5) /\ hasValidToAccountKeywordsThrows(words) THEN TypeError
  ELSE IF hasEnoughWords(words, 5) /\ ~hasValidToAccountKeywords(words)
       THEN createInvalidKeywordOrderError(parsedData)
  ELSE IF creditAccount # Null /\ ~isValidAccountId(creditAccount)
       THEN createInvalidAccountIdError(parsedData, FALSE)
  ELSE IF hasEnoughWords(words, 10) /\ hasValidForDebitFromAccountKeywordsThrows(words)
       THEN TypeError
  ELSE IF hasEnoughWords(words, 10) /\ ~hasValidForDebitFromAccountKeywords(words)
       THEN createInvalidKeywordOrderError(parsedData)
  ELSE IF debitAccount # Null /\ ~isValidAccountId(debitAccount)
       THEN createInvalidAccountIdError(parsedData, TRUE)
  ELSE IF debitAccount # Null /\ creditAccount # Null /\ areSameAccounts(debitAccount, creditAccount)
       THEN createSameAccountsError(parsedData)
  ELSE IF ~hasEnoughWords(words, 11) THEN createMissingKeywordError(parsedData)
  ELSE IF hasValidOnDate(words, 11)
       THEN IF 12 >= Len(words)
            THEN createInvalidDateError([ parsedData EXCEPT !.executeBy = Null ])
            ELSE LET dateStr == Some(words[13]) IN
                 IF parseDate(dateStr) = Null
                 THEN createInvalidDateError([ parsedData EXCEPT !.executeBy = dateStr ])
                 ELSE IF hasExtraWords(words, 13)
                      THEN createInvalidKeywordOrderError([ parsedData EXCEPT !.executeBy = dateStr ])
                      ELSE createSuccessResponse([ parsedData EXCEPT !.executeBy = dateStr ])
       ELSE IF hasExtraWords(words, 11)
            THEN createInvalidKeywordOrderError([ parsedData EXCEPT !.executeBy = Null ])
            ELSE createSuccessResponse([ parsedData EXCEPT !.executeBy = Null ])

parseInstruction(instr) ==
  IF instr = "" THEN createMalformedInstructionError
  ELSE LET words == splitByWhitespace(instr) IN
    IF ~hasEnoughWords(words, 6) THEN createMalformedInstructionError
    ELSE IF Undefined(words, 0) THEN TypeError
    ELSE LET firstWord == toUpperCase(words[1]) IN
      IF hasValidFirstWord(firstWord) /\ firstWord = "DEBIT" THEN parseDebitInstruction(words)
      ELSE IF hasValidFirstWord(firstWord) /\ firstWord = "CREDIT" THEN parseCreditInstruction(words)
      ELSE createMalformedInstructionError

(***************************************************************************)
(* The resolver                                                            *)
(***************************************************************************)
debitAccountExists(debitAccountObj) == debitAccountObj # Null

\* variant: the credit account is taken to exist
creditAccountExists_unchecked(creditAccountObj) == TRUE

creditAccountExists(creditAccountObj) == creditAccountObj # Null

\* variant: every currency is taken as supported
isSupportedCurrency_any(currency, supportedCurrencies) == TRUE

isSupportedCurrency(currency, supportedCurrencies) ==
  currency # Null /\ currency[1] \in supportedCurrencies

\* variant: the instruction's currency is not compared
currenciesMatch_accountsOnly(debitAccountObj, creditAccountObj, instructionCurrency) ==
  debitAccountObj.currency = creditAccountObj.currency

currenciesMatch(debitAccountObj, creditAccountObj, instructionCurrency) ==
  /\ debitAccountObj.currency = creditAccountObj.currency
  /\ Some(debitAccountObj.currency) = instructionCurrency

\* variant: a balance equal to the amount is refused
hasSufficientFunds_strict(debitAccountObj, amount) == debitAccountObj.balance > amount[1]

hasSufficientFunds(debitAccountObj, amount) == debitAccountObj.balance >= amount[1]

\* accounts.find((acc) => acc.id === id): the first match, Null when there is none
FindAccount(accts, id) ==
  IF \E i \in 1..Len(accts) : Some(accts[i].id) = id
  THEN Some(accts[CHOOSE i \in 1..Len(accts) :
                    /\ Some(accts[i].id) = id
                    /\ \A j \in 1..(i - 1) : Some(accts[j].id) # id])
  ELSE Null

ResponseAccount(account) ==
  [ id |-> account.id, balance |-> account.balance,
    balance_before |-> account.balance, currency |-> account.currency ]

\* variant: the debit entries first, then the credit entries
ResponseAccounts_instructionOrder(accts, debitAccount, creditAccount) ==
  LET debits == SelectSeq(accts, LAMBDA a : Some(a.id) = debitAccount)
      credits == SelectSeq(accts, LAMBDA a : Some(a.id) = creditAccount /\ Some(a.id) # debitAccount)
      both == debits \o credits
  IN [ i \in 1..Len(both) |-> ResponseAccount(both[i]) ]

RECURSIVE ResponseAccounts(_, _, _)
\* the forEach loop that collects the accounts a transaction refers to
ResponseAccounts(accts, debitAccount, creditAccount) ==
  IF accts = << >> THEN << >>
  ELSE LET account == Head(accts)
           rest == ResponseAccounts(Tail(accts), debitAccount, creditAccount)
       IN IF Some(account.id) = debitAccount \/ Some(account.id) = creditAccount
          THEN << ResponseAccount(account) >> \o rest
          ELSE rest

Outcome(data, status, statusReason, statusCode) ==
  [ type |-> data.type, amount |-> data.amount, currency |-> data.currency,
    debit_account |-> data.debitAccount, credit_account |-> data.creditAccount,
    execute_by |-> data.executeBy, status |-> status, status_reason |-> statusReason,
    status_code |-> statusCode, accounts |-> data.accounts ]

\* variant: the two sides exchanged
createAccountNotFoundError_swapped(data, isDebitAccount) ==
  Outcome(data, "failed",
          IF isDebitAccount THEN PaymentInstructionsMessages["CREDIT_ACCOUNT_NOT_FOUND"]
          ELSE PaymentInstructionsMessages["DEBIT_ACCOUNT_NOT_FOUND"],
          STATUS_CODES.ACCOUNT_NOT_FOUND)

createAccountNotFoundError(data, isDebitAccount) ==
  Outcome(data, "failed",
          IF isDebitAccount THEN PaymentInstructionsMessages["DEBIT_ACCOUNT_NOT_FOUND"]
          ELSE PaymentInstructionsMessages["CREDIT_ACCOUNT_NOT_FOUND"],
          STATUS_CODES.ACCOUNT_NOT_FOUND)

createUnsupportedCurrencyError(data) ==
  Outcome(data, "failed", PaymentInstructionsMessages["UNSUPPORTED_CURRENCY"],
          STATUS_CODES.UNSUPPORTED_CURRENCY)

\* variant: the collected accounts are left out
createCurrencyMismatchError_noAccounts(data) ==
  Outcome([ data EXCEPT !.accounts = << >> ], "failed",
          PaymentInstructionsMessages["CURRENCY_MISMATCH"], STATUS_CODES.CURRENCY_MISMATCH)

createCurrencyMismatchError(data) ==
  Outcome(data, "failed", PaymentInstructionsMessages["CURRENCY_MISMATCH"],
          STATUS_CODES.CURRENCY_MISMATCH)

createInsufficientFundsError(data, debitAccountObj) ==
  Outcome(data, "failed",
          PaymentInstructionsMessages["INSUFFICIENT_FUNDS"] \o ": has "
            \o toString(debitAccountObj.balance) \o " " \o data.currency[1] \o ", needs "
            \o toString(data.amount[1]) \o " " \o data.currency[1],
          STATUS_CODES.INSUFFICIENT_FUNDS)

\* the map that executes a transaction on the collected accounts
ExecuteTransfer(responseAccounts, parsedData) ==
  [ i \in 1..Len(responseAccounts) |->
      LET account == responseAccounts[i] IN
      IF Some(account.id) = parsedData.debitAccount
      THEN [ account EXCEPT !.balance_before = account.balance,
                            !.balance = account.balance - parsedData.amount[1] ]
      ELSE IF Some(account.id) = parsedData.creditAccount
      THEN [ account EXCEPT !.balance_before = account.balance,
                            !.balance = account.balance + parsedData.amount[1] ]
      ELSE account ]

\* executeDate > currentDate: a null date compares as 0
DateOrZero(d) == IF d = Null THEN [ time |-> 0 ] ELSE d[1]

processTransaction(parsedData, accts) ==
  LET responseAccounts == ResponseAccounts(accts, parsedData.debitAccount, parsedData.creditAccount)
      debitAccountObj == FindAccount(accts, parsedData.debitAccount)
      creditAccountObj == FindAccount(accts, parsedData.creditAccount)
      data == [ type |-> parsedData.type, amount |-> parsedData.amount,
                currency |-> parsedData.currency, debitAccount |-> parsedData.debitAccount,
                creditAccount |-> parsedData.creditAccount, executeBy |-> parsedData.executeBy,
                accounts |-> responseAccounts ]
  IN
  IF ~debitAccountExists(debitAccountObj) THEN createAccountNotFoundError(data, TRUE)
  ELSE IF ~creditAccountExists(creditAccountObj) THEN createAccountNotFoundError(data, FALSE)
  ELSE IF ~isSupportedCurrency(parsedData.currency, SUPPORTED_CURRENCIES)
       THEN createUnsupportedCurrencyError(data)
  ELSE IF debitAccountObj = Null \/ creditAccountObj = Null THEN TypeError
  ELSE IF ~currenciesMatch(debitAccountObj[1], creditAccountObj[1], parsedData.currency)
       THEN createCurrencyMismatchError(data)
  ELSE IF ~hasSufficientFunds(debitAccountObj[1], parsedData.amount)
       THEN createInsufficientFundsError(data, debitAccountObj[1])
  ELSE LET pending == /\ parsedData.executeBy # Null
                      /\ isFutureDate(DateOrZero(parseDate(parsedData.executeBy)), getCurrentUTCDate)
           status == IF pending THEN "pending" ELSE "successful"
           statusCode == IF pending THEN STATUS_CODES.PENDING ELSE STATUS_CODES.SUCCESSFUL
           statusReason == IF pending THEN PaymentInstructionsMessages["TRANSACTION_PENDING"]
                           ELSE PaymentInstructionsMessages["TRANSACTION_SUCCESS"]
       IN Outcome([ data EXCEPT !.accounts = IF status = "successful"
                                             THEN ExecuteTransfer(responseAccounts, parsedData)
                                             ELSE responseAccounts ],
                  status, statusReason, statusCode)

\* variant: the transfer is written into the caller's objects
callerAccountsAfter_inPlace(parsedData, accts) ==
  IF processTransaction(parsedData, accts).status = "successful"
  THEN [ i \in 1..Len(accts) |->
           IF Some(accts[i].id) = parsedData.debitAccount
           THEN [ accts[i] EXCEPT !.balance = @ - parsedData.amount[1] ]
           ELSE IF Some(accts[i].id) = parsedData.creditAccount
           THEN [ accts[i] EXCEPT !.balance = @ + parsedData.amount[1] ]
           ELSE accts[i] ]
  ELSE accts

\* the caller's list after processTransaction: forEach pushes object literals and map
\* returns object literals, so no element of accounts is assigned to
callerAccountsAfter(parsedData, accts) == accts

NoParsedData ==
  [ type |-> Null, amount |-> Null, currency |-> Null, debitAccount |-> Null,
    creditAccount |-> Null, executeBy |-> Null ]

\* variant: every caller account is returned
FailureAccounts_all(parsedData, accts) == [ i \in 1..Len(accts) |-> ResponseAccount(accts[i]) ]

\* the accounts of the response to an instruction that did not parse
FailureAccounts(parsedData, accts) ==
  IF parsedData.debitAccount # Null \/ parsedData.creditAccount # Null
  THEN ResponseAccounts(accts, parsedData.debitAccount, parsedData.creditAccount)
  ELSE << >>

\* the outcome composed for an instruction that did not parse
ParseFailureOutcome(parsed, accts) ==
  LET parsedData == IF "data" \in DOMAIN parsed THEN parsed.data ELSE NoParsedData
      responseAccounts == FailureAccounts(parsedData, accts)
  IN [ type |-> parsedData.type, amount |-> parsedData.amount,
       currency |-> parsedData.currency, debit_account |-> parsedData.debitAccount,
       credit_account |-> parsedData.creditAccount, execute_by |-> parsedData.executeBy,
       status |-> "failed", status_reason |-> parsed.error.status_reason,
       status_code |-> parsed.error.status_code, accounts |-> responseAccounts ]

\* the service from the parse result on
ServiceOutcome(parsed, accts) ==
  IF Threw(parsed) THEN TypeError
  ELSE IF ~parsed.success THEN ParseFailureOutcome(parsed, accts)
  ELSE processTransaction(parsed.data, accts)

\* validator.validate is an external collaborator: it returns a well-typed payload as it is
processTransactionService(serviceData) ==
  ServiceOutcome(parseInstruction(serviceData.instruction), serviceData.accounts)

HTTP_200_OK == 200

HTTP_400_BAD_REQUEST == 400

HTTP_500_INTERNAL_SERVER_ERROR == 500

\* variant: only a successful outcome is answered with 200
HttpResult_onlySuccessful(response) ==
  [ status |-> IF response.status = "successful" THEN HTTP_200_OK ELSE HTTP_400_BAD_REQUEST,
    data |-> response ]

\* the endpoint's answer to the service's response
HttpResult(response) ==
  IF Threw(response)
  THEN [ status |-> HTTP_500_INTERNAL_SERVER_ERROR,
         data |-> [ type |-> Null, amount |-> Null, currency |-> Null, debit_account |-> Null,
                    credit_account |-> Null, execute_by |-> Null, status |-> "failed",
                    status_reason |-> "Internal server error",
                    status_code |-> "INTERNAL_ERROR", accounts |-> << >> ] ]
  ELSE LET httpStatus == IF response.status = "failed" THEN HTTP_400_BAD_REQUEST
                         ELSE HTTP_200_OK
       IN [ status |-> httpStatus, data |-> response ]

\* the endpoint: the payload of the model is always an object with a list and a string
handler(payload) == HttpResult(processTransactionService(payload))

(***************************************************************************)
(* Requests: the instructions, account lists and host clocks explored      *)
(***************************************************************************)
MaxAccounts == 3

MaxBalance == 2

RECURSIVE Join(_)
\* the tokens separated by single spaces
Join(tokens) ==
  IF tokens = << >> THEN ""
  ELSE IF Len(tokens) = 1 THEN tokens[1]
  ELSE tokens[1] \o " " \o Join(Tail(tokens))

DebitForm(amount, currency, debitId, creditId) ==
  << "DEBIT", amount, currency, "FROM", "ACCOUNT", debitId, "FOR", "CREDIT", "TO", "ACCOUNT", creditId >>

CreditForm(amount, currency, debitId, creditId) ==
  << "CREDIT", amount, currency, "TO", "ACCOUNT", creditId, "FOR", "DEBIT", "FROM", "ACCOUNT", debitId >>

Forms(amount, currency, debitId, creditId) ==
  { DebitForm(amount, currency, debitId, creditId), CreditForm(amount, currency, debitId, creditId) }

Yesterday == "2026-11-05"

Today == "2026-11-06"

Tomorrow == "2026-11-07"

\* complete instructions without a date
UndatedTokens ==
  UNION { Forms(tokens[1], tokens[2], ids[1], ids[2]) :
            tokens \in { << "1", "USD" >>, << "2", "USD" >>, << "1", "XYZ" >> },
            ids \in { << "a", "b" >>, << "b", "a" >> } }

\* complete instructions with a date around the current one
DatedTokens ==
  { form \o << "ON", date >> :
      form \in Forms("1", "USD", "a", "b") \cup Forms("2", "USD", "b", "a")
               \cup { DebitForm("1", "XYZ", "a", "b") },
      date \in { Yesterday, Today, Tomorrow, "2020-01-01", "2099-12-31" } }

\* both identifiers the same or nearly, or an account the caller may not have, followed by
\* anything
SameIdTokens ==
  { form \o tail :
      form \in Forms("1", "USD", "a", "a") \cup Forms("2", "XYZ", "d", "d")
               \cup Forms("1", "USD", "a", "A") \cup Forms("1", "USD", "c", "a"),
      tail \in { << >>, << "x", "y" >>, << "ON" >>, << "ON", "2026-13-01" >>, << "ON", Tomorrow >> } }

\* tokens tried in place of the token at a position (0-based) of a complete instruction
Alternatives(position) ==
  CASE position = 0 -> { "debit", "Debit", "credit", "CREDIT", "DEBIT", "SEND" }
    [] position = 1 -> { "03", "-2", "2.5", "0", "+2", "2a", "abc", "10", "1.0", "00" }
    [] position = 2 -> { "usd", "Usd", "gbp", "NGN", "ghs", "US" }
    [] position = 3 -> { "from", "From", "to", "TO", "FROM", "FOR" }
    [] position = 4 -> { "account", "Account", "ACCT" }
    [] position = 5 -> { "A", "a!", "b", "a_b", "a-b.c@1", "c" }
    [] position = 6 -> { "for", "AND" }
    [] position = 7 -> { "credit", "debit", "DEBIT", "CREDIT" }
    [] position = 8 -> { "to", "from", "TO", "FROM" }
    [] position = 9 -> { "account", "ACCOUNTS" }
    [] position = 10 -> { "B", "b#", "a", "A", "c" }
    [] position = 11 -> { "on", "On", "AT" }
    [] position = 12 -> { "2024-02-29", "2026-02-29", "2100-02-29", "2000-02-29", "2026-13-01",
                          "2026-00-10", "2026-04-31", "2026-1-01", "26-11-07", "2026/11/07",
                          "2026-11-00", "0050-01-05", "tomorrow" }
    [] OTHER -> { }

ReplaceAt(tokens, position, token) ==
  [ i \in 1..Len(tokens) |-> IF i = position + 1 THEN token ELSE tokens[i] ]

BaseTokens ==
  { form \o tail : form \in Forms("2", "USD", "a", "b"),
                   tail \in { << >>, << "ON", Tomorrow >> } }

\* complete instructions with one token replaced, cut short, or with a token too many
VariantTokens ==
  UNION { { ReplaceAt(base, position, token) : token \in Alternatives(position) } :
            base \in BaseTokens, position \in 0..12 }
  \cup UNION { { SubSeq(base, 1, n) : n \in 0..(Len(base) - 1) } : base \in BaseTokens }
  \cup { base \o << "now" >> : base \in BaseTokens }

VariantInstructions == { Join(tokens) : tokens \in VariantTokens }

\* instructions of seven to ten tokens with a wrong token among the positions 6-9
ShortTokens ==
  { SubSeq(ReplaceAt(base, position, token), 1, n) :
      base \in Forms("2", "usd", "a", "b"), position \in 6..9, token \in { "AND", "debit" },
      n \in 7..10 }

\* a token that fails one check of the parser, with its position
FaultTokens ==
  { << 1, "0" >>, << 3, "FOR" >>, << 5, "a!" >>, << 7, "AND" >>, << 10, "b#" >>,
    << 10, "a" >>, << 11, "AT" >>, << 12, "2026-13-01" >> }

\* instructions with one or two faults, whole, cut after the second account or before it
TwoFaultTokens ==
  UNION { { SubSeq(ReplaceAt(ReplaceAt(base, f[1], f[2]), g[1], g[2]), 1, n) :
              f \in FaultTokens, g \in FaultTokens, n \in { 10, 11, Len(base) } } :
            base \in { form \o tail :
                        form \in Forms("2", "USD", "a", "b"),
                        tail \in { << "ON", Tomorrow >>, << "ON", Tomorrow, "now" >> } } }

\* instructions whose date token is of the right length with the dashes in place
OddDateTokens ==
  { form \o << "on", date >> :
      form \in Forms("1", "USD", "a", "b"),
      date \in { "2024-1a-05", "2024-+1-05", "2024-01-5x", "2024-01-+5", "2024--1-05",
                 "-024-01-05", "0099-12-31", "0100-01-01", "1900-02-29", "2026-02-28",
                 "2026-06-31", "2026-12-31", "2026-01-32", "20a6-01-01", "2026-0a-01" } }

\* complete instructions followed by a date clause that is cut, wrong or too long
DateTailTokens ==
  { form \o tail :
      form \in Forms("2", "usd", "a", "b"),
      tail \in { << "on" >>, << "ON", "2026-02-30" >>, << "AT", Tomorrow >>, << Tomorrow >>,
                 << "x" >>, << "ON", "2024-02-29", "x" >>, << "on", Tomorrow, "x", "y" >>,
                 << "ON", Tomorrow, "ON", Tomorrow >>, << "ON", "0050-01-05", "x" >>,
                 << "ONE", "2026-02-30" >>, << "on", Yesterday >> } }

\* complete instructions with an identifier made of characters next to the allowed ranges
OddIdTokens ==
  UNION { { ReplaceAt(form, position, id) :
              id \in { "a/b", "a:b", "Z[", "a^", "z{", "Az09", "a,b", "@", "-.", "a_", "9+" } } :
            form \in Forms("1", "USD", "a", "b"), position \in { 5, 10 } }

\* instructions dated after the current date, for the lists of the undated ones
FutureTokens ==
  { form \o << "ON", date >> :
      form \in Forms("1", "USD", "a", "b") \cup Forms("2", "GBP", "a", "b"),
      date \in { Tomorrow, "2099-12-31" } }

RECURSIVE JoinSeps(_, _, _)
\* the tokens with the separators of seps between them, taken in turn from the i-th on
JoinSeps(tokens, seps, i) ==
  IF tokens = << >> THEN ""
  ELSE IF Len(tokens) = 1 THEN tokens[1]
  ELSE tokens[1] \o seps[(i % Len(seps)) + 1] \o JoinSeps(Tail(tokens), seps, i + 1)

\* instructions with runs of white space between the tokens, before and after them
SpacedInstructions ==
  { lead \o JoinSeps(tokens, seps, 0) \o trail :
      tokens \in BaseTokens \cup { SubSeq(DebitForm("2", "USD", "a", "b"), 1, 5),
                                  CreditForm("2", "usd", "a", "b") \o << "on", "2026-02-30" >>,
                                  DebitForm("2", "USD", "a", "b") \o << "now" >> },
      seps \in { << "\t" >>, << "  ", "\n" >>, << "\r\n", " ", "\t\t" >>, << "\r" >>,
                 << " ", " \n\r\t " >> },
      lead \in { "", " ", "\n\t", "\r" },
      trail \in { "", "  ", "\t\n", "\r\n" } }
  \cup { "\fDEBIT 2 USD FROM ACCOUNT a FOR CREDIT TO ACCOUNT b\f" }

\* instructions that are nothing but white space
BlankInstructions == { " ", "\t", " \n\r\t " }

\* the entries of the lists tried with the complete undated instructions
TransferEntries ==
  { [ id |-> "a", balance |-> b, currency |-> "USD" ] : b \in 0..MaxBalance }
  \cup { [ id |-> "b", balance |-> 1, currency |-> "USD" ],
         [ id |-> "b", balance |-> 1, currency |-> "GBP" ] }

TransferLists == UNION { [ 1..n -> TransferEntries ] : n \in 0..MaxAccounts }

\* the entries of the lists tried with the other instructions
PlainEntries == { [ id |-> i, balance |-> 1, currency |-> "USD" ] : i \in { "a", "b", "c" } }

\* only the identifier a may repeat
FewAccountLists ==
  { l \in UNION { [ 1..n -> PlainEntries ] : n \in 0..MaxAccounts } :
      \A i, j \in 1..Len(l) : i # j => l[i].id # l[j].id \/ l[i].id = "a" }

FullAccountLists == { l \in FewAccountLists : Len(l) = MaxAccounts }

UtcHour(year, month, day, hour) == DaysFromCivil(year, month, day) * HoursPerDay + hour

\* the current UTC date is 2026-11-06; the host is at its first or last hour
Clocks == { UtcHour(2026, 11, 6, 0), UtcHour(2026, 11, 6, 23) }

\* host time zones: the extreme offsets and UTC
TimeZones == { -12, 0, 14 }

Init ==
  /\ \/ /\ instruction \in { Join(t) : t \in UndatedTokens }
        /\ accounts \in TransferLists
        /\ now = UtcHour(2026, 11, 6, 0)
        /\ tzOffset = 0
     \/ /\ instruction \in { Join(t) : t \in SameIdTokens }
        /\ accounts \in FewAccountLists
        /\ now = UtcHour(2026, 11, 6, 0)
        /\ tzOffset = 0
     \/ /\ instruction \in { Join(t) : t \in DatedTokens }
        /\ accounts \in FewAccountLists
        /\ now \in Clocks
        /\ tzOffset \in TimeZones
     \/ /\ instruction \in VariantInstructions \cup BlankInstructions
                           \cup { Join(t) : t \in ShortTokens }
        /\ accounts \in FullAccountLists
        /\ now = UtcHour(2026, 11, 6, 0)
        /\ tzOffset = 0
     \/ /\ instruction \in { Join(t) : t \in TwoFaultTokens \cup OddDateTokens \cup DateTailTokens
                                           \cup OddIdTokens }
                           \cup SpacedInstructions
        /\ accounts = << [ id |-> "a", balance |-> 2, currency |-> "USD" ],
                         [ id |-> "b", balance |-> 1, currency |-> "USD" ] >>
        /\ now = UtcHour(2026, 11, 6, 0)
        /\ tzOffset = 0
     \/ /\ instruction \in { Join(t) : t \in FutureTokens }
        /\ accounts \in TransferLists
        /\ now = UtcHour(2026, 11, 6, 23)
        /\ tzOffset = 0
  /\ wordList = << >>
  /\ parseResult = Null
  /\ resolved = Null
  /\ outcome = Null
  /\ httpResponse = Null
  /\ pc = "received"

(***************************************************************************)
(* One request: the parser, the resolver, the service and the endpoint     *)
(***************************************************************************)
ParseInstruction ==
  /\ pc = "received"
  /\ wordList' = splitByWhitespace(instruction)
  /\ parseResult' = parseInstruction(instruction)
  /\ pc' = "parsed"
  /\ UNCHANGED << instruction, accounts, now, tzOffset, resolved, outcome, httpResponse >>

ProcessTransaction ==
  /\ pc = "parsed"
  /\ ~Threw(parseResult)
  /\ parseResult.success
  /\ resolved' = processTransaction(parseResult.data, accounts)
  /\ accounts' = callerAccountsAfter(parseResult.data, accounts)
  /\ pc' = "resolved"
  /\ UNCHANGED << instruction, now, tzOffset, wordList, parseResult, outcome, httpResponse >>

ProcessTransactionService ==
  /\ pc = "resolved" \/ (pc = "parsed" /\ (Threw(parseResult) \/ ~parseResult.success))
  /\ outcome' = processTransactionService([ instruction |-> instruction, accounts |-> accounts ])
  /\ pc' = "serviced"
  /\ UNCHANGED << instruction, accounts, now, tzOffset, wordList, parseResult, resolved, httpResponse >>

Handler ==
  /\ pc = "serviced"
  /\ httpResponse' = handler([ instruction |-> instruction, accounts |-> accounts ])
  /\ pc' = "responded"
  /\ UNCHANGED << instruction, accounts, now, tzOffset, wordList, parseResult, resolved, outcome >>

Next == ParseInstruction \/ ProcessTransaction \/ ProcessTransactionService \/ Handler

Spec == Init /\ [][Next]_vars

(***************************************************************************)
(* Vocabulary of the properties.  It is written from the grammar and the   *)
(* calendar, not from the operators above.                                 *)
(***************************************************************************)
\* the request is past the parser
Parsed == pc # "received"

\* the parser, the resolver, the service or the endpoint has just returned
JustParsed == pc = "parsed"

Resolved == pc = "resolved"

Serviced == pc = "serviced"

Responded == pc = "responded"

\* the tokens of the instruction, 1-based
Words == wordList

FirstWord(w) == IF Len(w) >= 1 THEN toUpperCase(w[1]) ELSE ""

IsTyped(w) == Len(w) >= 6 /\ FirstWord(w) \in { "DEBIT", "CREDIT" }

\* the token in the debit role and the token in the credit role, Null when absent
DebitToken(w) == IF FirstWord(w) = "DEBIT" THEN WordAt(w, 5) ELSE WordAt(w, 10)

CreditToken(w) == IF FirstWord(w) = "DEBIT" THEN WordAt(w, 10) ELSE WordAt(w, 5)

\* digits only, no leading zero: the canonical numeral of an integer > 0
IsCanonicalPositive(token) ==
  /\ Len(token) >= 1
  /\ \A i \in 1..Len(token) : Ch(token, i) \in DigitSet
  /\ Ch(token, 1) # "0"

RECURSIVE NumeralValue(_)
NumeralValue(token) ==
  IF token = "" THEN 0
  ELSE NumeralValue(SubSeq(token, 1, Len(token) - 1)) * 10 + DigitValues[Ch(token, Len(token))]

\* the keywords of the grammar at positions 3-4 and 6-9
KeywordsMatch(w) ==
  /\ Len(w) >= 10
  /\ << toUpperCase(w[4]), toUpperCase(w[5]), toUpperCase(w[7]), toUpperCase(w[8]),
        toUpperCase(w[9]), toUpperCase(w[10]) >>
       = IF FirstWord(w) = "DEBIT" THEN << "FROM", "ACCOUNT", "FOR", "CREDIT", "TO", "ACCOUNT" >>
         ELSE << "TO", "ACCOUNT", "FOR", "DEBIT", "FROM", "ACCOUNT" >>

IdChars == LowerChars \cup UpperChars \cup DigitSet \cup { "-", ".", "@" }

IsIdentifier(token) == \A i \in 1..Len(token) : Ch(token, i) \in IdChars

\* the caller's entries with an identifier of ids, in the caller's order, as response entries
Referenced(ids) ==
  LET picked == SelectSeq(accounts, LAMBDA a : Some(a.id) \in ids)
  IN [ i \in 1..Len(picked) |->
         [ id |-> picked[i].id, balance |-> picked[i].balance,
           balance_before |-> picked[i].balance, currency |-> picked[i].currency ] ]

RECURSIVE SumOf(_, _)
SumOf(entries, field) ==
  IF entries = << >> THEN 0 ELSE Head(entries)[field] + SumOf(Tail(entries), field)

Contains(text, part) ==
  \E i \in 1..(Len(text) - Len(part) + 1) : SubSeq(text, i, i + Len(part) - 1) = part

\* the first caller entry with the identifier id
FirstEntry(id) == accounts[CHOOSE i \in 1..Len(accounts) :
                             Some(accounts[i].id) = id /\ \A j \in 1..(i - 1) : Some(accounts[j].id) # id]

HasEntry(id) == \E i \in 1..Len(accounts) : Some(accounts[i].id) = id

\* the five resolver checks, on the parsed instruction and the caller's list
BothResolve == HasEntry(parseResult.data.debitAccount) /\ HasEntry(parseResult.data.creditAccount)

CurrenciesAgree ==
  /\ parseResult.data.currency[1] \in { "NGN", "USD", "GBP", "GHS" }
  /\ FirstEntry(parseResult.data.debitAccount).currency = parseResult.data.currency[1]
  /\ FirstEntry(parseResult.data.creditAccount).currency = parseResult.data.currency[1]

FundsSuffice == FirstEntry(parseResult.data.debitAccount).balance >= parseResult.data.amount[1]

PassesAllChecks == BothResolve /\ CurrenciesAgree /\ FundsSuffice

\* the number of days of a month of the Gregorian calendar
DaysOfMonth(year, month) ==
  IF month \in { 4, 6, 9, 11 } THEN 30
  ELSE IF month = 2
       THEN IF year % 4 = 0 /\ (year % 100 # 0 \/ year % 400 = 0) THEN 29 ELSE 28
  ELSE 31

AllDigits(token) == \A i \in 1..Len(token) : Ch(token, i) \in DigitSet

\* four digits, a dash, two digits, a dash, two digits, naming a day of the calendar
IsCalendarDate(token) ==
  /\ Len(token) = 10
  /\ AllDigits(SubSeq(token, 1, 4)) /\ Ch(token, 5) = "-"
  /\ AllDigits(SubSeq(token, 6, 7)) /\ Ch(token, 8) = "-"
  /\ AllDigits(SubSeq(token, 9, 10))
  /\ NumeralValue(SubSeq(token, 6, 7)) \in 1..12
  /\ NumeralValue(SubSeq(token, 9, 10))
       \in 1..DaysOfMonth(NumeralValue(SubSeq(token, 1, 4)), NumeralValue(SubSeq(token, 6, 7)))

\* the calendar day of a YYYY-MM-DD string and the current UTC calendar day
CivilDay(dateStr) ==
  DaysFromCivil(NumeralValue(SubSeq(dateStr, 1, 4)), NumeralValue(SubSeq(dateStr, 6, 7)),
                NumeralValue(SubSeq(dateStr, 9, 10)))

UtcDay == now \div HoursPerDay

\* the parsed instruction carries a date of the calendar
Dated ==
  /\ parseResult.data.executeBy # Null
  /\ IsCalendarDate(parseResult.data.executeBy[1])

\* the entries of a response were debited and credited by the instruction's amount
Transferred(entries) ==
  \A i \in 1..Len(entries) :
    /\ Some(entries[i].id) = parseResult.data.debitAccount
         => entries[i].balance = entries[i].balance_before - parseResult.data.amount[1]
    /\ Some(entries[i].id) = parseResult.data.creditAccount
         => entries[i].balance = entries[i].balance_before + parseResult.data.amount[1]

(***************************************************************************)
(* Properties                                                              *)
(***************************************************************************)
\* every caller entry in the debit or credit role has the instruction's currency, and every
\* debit entry holds at least the amount
EveryEntryFits ==
  \A i \in 1..Len(accounts) :
    /\ Some(accounts[i].id) = parseResult.data.debitAccount
         => /\ accounts[i].currency = parseResult.data.currency[1]
            /\ accounts[i].balance >= parseResult.data.amount[1]
    /\ Some(accounts[i].id) = parseResult.data.creditAccount
         => accounts[i].currency = parseResult.data.currency[1]

ImmediateTransfer ==
  /\ Serviced
  /\ parseResult.success
  /\ parseResult.data.executeBy = Null
  /\ BothResolve
  /\ parseResult.data.currency[1] \in { "NGN", "USD", "GBP", "GHS" }
  /\ EveryEntryFits

\* C1: an instruction without a date whose accounts resolve, whose currency is supported and
\* equal to both account currencies and whose debit balance covers the amount is successful
\* (AP00), debits and credits exactly the amount, and conserves the sum of the balances of
\* the outcome's accounts.
C1_TransferConserves ==
  ImmediateTransfer =>
    /\ outcome.status = "successful"
    /\ outcome.status_code = "AP00"
    /\ Transferred(outcome.accounts)
    /\ SumOf(outcome.accounts, "balance") = SumOf(outcome.accounts, "balance_before")

\* C2: with both accounts resolved and the three currencies supported and identical, the
\* resolver fails with AC01 exactly when the debit balance is strictly below the amount,
\* and the AC01 reason contains that balance and the amount.
C2_InsufficientFunds ==
  (Resolved /\ BothResolve /\ CurrenciesAgree) =>
    /\ resolved.status_code = "AC01"
         <=> FirstEntry(parseResult.data.debitAccount).balance < parseResult.data.amount[1]
    /\ resolved.status_code = "AC01" =>
         /\ resolved.status = "failed"
         /\ Contains(resolved.status_reason,
                     toString(FirstEntry(parseResult.data.debitAccount).balance))
         /\ Contains(resolved.status_reason, toString(parseResult.data.amount[1]))

C2_Witness ==
  /\ Resolved /\ BothResolve /\ CurrenciesAgree
  /\ resolved.status_code = "AC01"
  /\ FirstEntry(parseResult.data.debitAccount).balance + 1 = parseResult.data.amount[1]

\* C3: an instruction that passes the five resolver checks and whose date is after the
\* current UTC date is pending (AP02), and every account of the outcome keeps the caller's
\* balance as balance and as balance_before.
C3_FutureIsPending ==
  (Resolved /\ PassesAllChecks /\ Dated
     /\ CivilDay(parseResult.data.executeBy[1]) > UtcDay) =>
    /\ resolved.status = "pending"
    /\ resolved.status_code = "AP02"
    /\ resolved.accounts
         = Referenced({ parseResult.data.debitAccount, parseResult.data.creditAccount })

C3_Witness ==
  /\ Resolved /\ PassesAllChecks /\ Dated
  /\ CivilDay(parseResult.data.executeBy[1]) = UtcDay + 1
  /\ now % HoursPerDay = 23
  /\ tzOffset = 14
  /\ resolved.status = "pending"
  /\ Len(resolved.accounts) >= 2

\* C4: an instruction that passes the five resolver checks and whose date is before the
\* current UTC date is successful (AP00) and debits and credits the amount as an undated
\* instruction does; it is neither rejected nor pending.
C4_PastExecutesNow ==
  (Resolved /\ PassesAllChecks /\ Dated
     /\ CivilDay(parseResult.data.executeBy[1]) < UtcDay) =>
    /\ resolved.status = "successful"
    /\ resolved.status_code = "AP00"
    /\ Transferred(resolved.accounts)
    /\ \A i \in 1..Len(resolved.accounts) :
         resolved.accounts[i].balance_before
           = Referenced({ parseResult.data.debitAccount,
                          parseResult.data.creditAccount })[i].balance
    /\ resolved.accounts
         = processTransaction([ parseResult.data EXCEPT !.executeBy = Null ], accounts).accounts

C4_Witness ==
  /\ Resolved /\ PassesAllChecks /\ Dated
  /\ CivilDay(parseResult.data.executeBy[1]) = UtcDay - 1
  /\ tzOffset = -12
  /\ resolved.status = "successful"
  /\ \E i \in 1..Len(resolved.accounts) :
       resolved.accounts[i].balance # resolved.accounts[i].balance_before

SameIdInstruction(w) ==
  /\ IsTyped(w)
  /\ Len(w) >= 11
  /\ IsCanonicalPositive(w[2])
  /\ KeywordsMatch(w)
  /\ IsIdentifier(w[6])
  /\ w[6] = w[11]

\* C5: an instruction whose two identifiers are valid and identical and whose amount and
\* keywords are in order fails with AC02 whatever the caller's list is and whatever follows
\* the second identifier.
C5_SameAccountsRejected ==
  Serviced =>
    LET w == Words IN
    SameIdInstruction(w) =>
      /\ outcome.status = "failed"
      /\ outcome.status_code = "AC02"

C5_Witness ==
  /\ Serviced
  /\ LET w == Words IN
     /\ SameIdInstruction(w)
     /\ Len(w) >= 13
     /\ accounts # << >>
     /\ ~HasEntry(Some(w[6]))
  /\ outcome.status_code = "AC02"

LowerOf == [ c \in UpperChars |-> Ch(LowerAlpha, CHOOSE i \in 1..26 : Ch(UpperAlpha, i) = c) ]

RECURSIVE LowerCased(_)
LowerCased(s) ==
  IF s = "" THEN ""
  ELSE (IF Ch(s, 1) \in UpperChars THEN LowerOf[Ch(s, 1)] ELSE Ch(s, 1)) \o LowerCased(StrTail(s))

\* positions (1-based) of the type, the currency, the keywords and ON
CaseFreePositions == { 1, 3, 4, 5, 7, 8, 9, 10, 12 }

UpperKeywords(words) ==
  [ i \in 1..Len(words) |-> IF i \in CaseFreePositions THEN toUpperCase(words[i]) ELSE words[i] ]

LowerKeywords(words) ==
  [ i \in 1..Len(words) |-> IF i \in CaseFreePositions THEN LowerCased(words[i]) ELSE words[i] ]

\* C7: the letter case of the type, the keywords and the currency does not change the parse
\* result; type and currency are upper-cased; identifiers are echoed as written and two
\* identifiers that differ, if only in case, are not the same account.
C7_CaseInsensitive ==
  JustParsed =>
    LET w == Words IN
    /\ parseResult = parseInstruction(Join(UpperKeywords(w)))
    /\ parseResult = parseInstruction(Join(LowerKeywords(w)))
    /\ "data" \in DOMAIN parseResult =>
         /\ parseResult.data.type = Some(FirstWord(w))
         /\ parseResult.data.currency = Some(toUpperCase(w[3]))
         /\ parseResult.data.debitAccount = DebitToken(w)
         /\ parseResult.data.creditAccount = CreditToken(w)
    /\ (IsTyped(w) /\ Len(w) >= 11 /\ w[6] # w[11])
         => (parseResult.success \/ parseResult.error.status_code # "AC02")

C7_Witness ==
  /\ JustParsed
  /\ parseResult.success
  /\ LET w == Words IN w[4] = "from" /\ w # UpperKeywords(w)

InstructionIds(w) == IF IsTyped(w) THEN { WordAt(w, 5), WordAt(w, 10) } \ { Null } ELSE { }

\* C8: the accounts of every outcome are the caller's entries whose identifier is the debit
\* or the credit identifier of the instruction, in the caller's order, and no other entry.
C8_AccountsInCallerOrder ==
  Serviced =>
    LET expected == Referenced(InstructionIds(Words)) IN
    /\ Len(outcome.accounts) = Len(expected)
    /\ \A i \in 1..Len(outcome.accounts) :
         /\ outcome.accounts[i].id = expected[i].id
         /\ outcome.accounts[i].currency = expected[i].currency
         /\ outcome.accounts[i].balance_before = expected[i].balance

C8_Witness ==
  /\ Serviced
  /\ outcome.status = "successful"
  /\ Len(accounts) = 3
  /\ Len(outcome.accounts) = 2
  /\ LET w == Words IN
     /\ FirstWord(w) = "DEBIT"
     /\ Some(outcome.accounts[1].id) = CreditToken(w)
     /\ Some(outcome.accounts[2].id) = DebitToken(w)

NothingParsed ==
  [ type |-> << >>, amount |-> << >>, currency |-> << >>, debitAccount |-> << >>,
    creditAccount |-> << >>, executeBy |-> << >> ]

PartialData == IF "data" \in DOMAIN parseResult THEN parseResult.data ELSE NothingParsed

\* C9: when the parse fails the composed outcome is failed, carries the parser's code,
\* reason and partial fields, and its accounts are the caller's entries of the extracted
\* identifiers, unchanged, and no other entry.
C9_ParseFailureOutcome ==
  (Serviced /\ ~parseResult.success) =>
    /\ outcome.status = "failed"
    /\ outcome.status_code = parseResult.error.status_code
    /\ outcome.status_reason = parseResult.error.status_reason
    /\ outcome.type = PartialData.type
    /\ outcome.amount = PartialData.amount
    /\ outcome.currency = PartialData.currency
    /\ outcome.debit_account = PartialData.debitAccount
    /\ outcome.credit_account = PartialData.creditAccount
    /\ outcome.execute_by = PartialData.executeBy
    /\ outcome.accounts
         = Referenced({ PartialData.debitAccount, PartialData.creditAccount } \ { Null })

C9_Witness ==
  /\ Serviced
  /\ ~parseResult.success
  /\ Len(outcome.accounts) >= 1
  /\ Len(outcome.accounts) < Len(accounts)

StatusCodeSet ==
  { "AP00", "AP02", "AM01", "CU01", "CU02", "AC01", "AC02", "AC03", "AC04", "DT01", "SY01",
    "SY02", "SY03" }

StatusAgrees(o) ==
  /\ o.status_code \in StatusCodeSet
  /\ o.status \in { "successful", "pending", "failed" }
  /\ o.status = "successful" <=> o.status_code = "AP00"
  /\ o.status = "pending" <=> o.status_code = "AP02"
  /\ o.status = "failed" <=> o.status_code \in StatusCodeSet \ { "AP00", "AP02" }

C11_AccountNotFound ==
  Resolved =>
    /\ ~HasEntry(parseResult.data.debitAccount) =>
         /\ resolved.status = "failed"
         /\ resolved.status_code = "AC03"
         /\ resolved.status_reason = "DEBIT_ACCOUNT_NOT_FOUND"
    /\ (HasEntry(parseResult.data.debitAccount) /\ ~HasEntry(parseResult.data.creditAccount)) =>
         /\ resolved.status = "failed"
         /\ resolved.status_code = "AC03"
         /\ resolved.status_reason = "CREDIT_ACCOUNT_NOT_FOUND"

\* the credit account is missing, and the debit account could not pay
C11_Witness ==
  /\ Resolved
  /\ HasEntry(parseResult.data.debitAccount)
  /\ ~HasEntry(parseResult.data.creditAccount)
  /\ FirstEntry(parseResult.data.debitAccount).balance < parseResult.data.amount[1]
  /\ resolved.status_code = "AC03"

\* C12: with both accounts resolved, an instruction currency outside NGN, USD, GBP, GHS gives
\* failed CU02 whatever the account currencies are, and the outcome is failed CU01 exactly
\* when the instruction currency is supported and the debit account's, the credit account's
\* and the instruction's currencies are not all the same text.
C12_CurrencyChecks ==
  (Resolved /\ BothResolve) =>
    LET instructionCurrency == parseResult.data.currency[1]
        debitCurrency == FirstEntry(parseResult.data.debitAccount).currency
        creditCurrency == FirstEntry(parseResult.data.creditAccount).currency
        supported == instructionCurrency \in { "NGN", "USD", "GBP", "GHS" }
    IN /\ ~supported => (resolved.status = "failed" /\ resolved.status_code = "CU02")
       /\ resolved.status_code = "CU01"
            <=> (supported /\ ~(debitCurrency = instructionCurrency
                                /\ creditCurrency = instructionCurrency))
       /\ resolved.status_code = "CU01" => resolved.status = "failed"

\* an unsupported currency reported although the account currencies differ as well
C12_Witness ==
  /\ Resolved
  /\ BothResolve
  /\ parseResult.data.currency[1] = "XYZ"
  /\ FirstEntry(parseResult.data.debitAccount).currency
       # FirstEntry(parseResult.data.creditAccount).currency
  /\ resolved.status_code = "CU02"

\* the instruction has no character that is not a blank, a tab or a line break
OnlyWhitespace == \A i \in 1..Len(instruction) : Ch(instruction, i) \in { " ", "\t", "\n", "\r" }

\* fewer than six tokens, or a first token that is neither DEBIT nor CREDIT
Untyped == OnlyWhitespace \/ Len(Words) < 6 \/ FirstWord(Words) \notin { "DEBIT", "CREDIT" }

\* C13: an instruction that is empty, only white space, shorter than six tokens (whatever
\* its first token) or whose first token is not DEBIT or CREDIT in any letter case is SY03
\* without partial data; the composed outcome has all six fields null and no accounts; an
\* instruction shorter than six tokens is never SY01.
C13_Malformed ==
  /\ (Parsed /\ Untyped) =>
       /\ ~parseResult.success
       /\ parseResult.error.status_code = "SY03"
       /\ "data" \notin DOMAIN parseResult
  /\ ((Serviced \/ Responded) /\ Untyped) =>
       /\ outcome.status = "failed"
       /\ outcome.status_code = "SY03"
       /\ outcome.type = Null /\ outcome.amount = Null /\ outcome.currency = Null
       /\ outcome.debit_account = Null /\ outcome.credit_account = Null
       /\ outcome.execute_by = Null
       /\ outcome.accounts = << >>

\* five tokens, the first one DEBIT, and a caller's list that holds the account named
C13_Witness ==
  /\ Serviced
  /\ Len(Words) = 5
  /\ FirstWord(Words) = "DEBIT"
  /\ Len(accounts) > 0
  /\ outcome.status_code = "SY03"
  /\ outcome.accounts = << >>

\* the keyword pair of the form at positions 3-4, in any letter case
PairMatches(w) ==
  /\ Len(w) >= 5
  /\ << toUpperCase(w[4]), toUpperCase(w[5]) >>
       = IF FirstWord(w) = "DEBIT" THEN << "FROM", "ACCOUNT" >> ELSE << "TO", "ACCOUNT" >>

\* the four keywords of the form at positions 6-9, in any letter case
FourMatch(w) ==
  /\ Len(w) >= 10
  /\ << toUpperCase(w[7]), toUpperCase(w[8]), toUpperCase(w[9]), toUpperCase(w[10]) >>
       = IF FirstWord(w) = "DEBIT" THEN << "FOR", "CREDIT", "TO", "ACCOUNT" >>
         ELSE << "FOR", "DEBIT", "FROM", "ACCOUNT" >>

\* six to ten tokens that are right as far as the first account identifier
ShortInstruction(w) ==
  /\ Len(w) \in 6..10
  /\ FirstWord(w) \in { "DEBIT", "CREDIT" }
  /\ IsCanonicalPositive(w[2])
  /\ PairMatches(w)
  /\ IsIdentifier(w[6])

\* the outcome of a missing keyword: what was read is echoed, the second account is not
MissingKeywordOutcome(w) ==
  /\ outcome.status = "failed"
  /\ outcome.status_code = "SY01"
  /\ outcome.type = Some(FirstWord(w))
  /\ outcome.amount = Some(NumeralValue(w[2]))
  /\ outcome.currency = Some(toUpperCase(w[3]))
  /\ outcome.debit_account = (IF FirstWord(w) = "DEBIT" THEN Some(w[6]) ELSE Null)
  /\ outcome.credit_account = (IF FirstWord(w) = "DEBIT" THEN Null ELSE Some(w[6]))
  /\ outcome.execute_by = Null
  /\ outcome.accounts = Referenced({ Some(w[6]) })

C15_NoException ==
  /\ Parsed => ~Threw(parseResult)
  /\ Resolved => ~Threw(resolved)
  /\ Serviced => ~Threw(outcome)
  /\ Responded => httpResponse.status \in { HTTP_200_OK, HTTP_400_BAD_REQUEST }

\* the resolver has answered an instruction with a date whose credit account the caller does
\* not hold
C15_Witness ==
  /\ Resolved
  /\ parseResult.data.executeBy # Null
  /\ HasEntry(parseResult.data.debitAccount)
  /\ ~HasEntry(parseResult.data.creditAccount)
  /\ resolved.status_code = "AC03"

C17_HttpStatus ==
  Responded =>
    /\ httpResponse.data = outcome
    /\ httpResponse.status = 400 <=> outcome.status = "failed"
    /\ outcome.status \in { "successful", "pending" } => httpResponse.status = 200

\* a pending outcome answered with 200
C17_Witness ==
  /\ Responded
  /\ outcome.status = "pending"
  /\ httpResponse.status = 200
  /\ httpResponse.data.status_code = "AP02"

\* C18: the decision between pending and immediate compares calendar dates only, against
\* the current UTC date, for every host time zone and time of day: an otherwise valid
\* instruction dated the current UTC date is executed at once (successful, balances
\* updated), one dated the following day or later is pending.
C18_DateOnlyDecision ==
  (Resolved /\ PassesAllChecks /\ Dated) =>
    /\ CivilDay(parseResult.data.executeBy[1]) = UtcDay =>
         /\ resolved.status = "successful"
         /\ resolved.status_code = "AP00"
         /\ Transferred(resolved.accounts)
    /\ CivilDay(parseResult.data.executeBy[1]) > UtcDay =>
         /\ resolved.status = "pending"
         /\ resolved.status_code = "AP02"

\* the date clause of the tokens fails: ON without a token after it, or with one that the
\* date check refuses
DateClauseFails(w) ==
  /\ Len(w) >= 12
  /\ toUpperCase(w[12]) = "ON"
  /\ (Len(w) < 13 \/ parseDate(Some(w[13])) = Null)

\* the number of tokens of a complete instruction with these first twelve tokens
CompleteLength(w) == IF Len(w) >= 12 /\ toUpperCase(w[12]) = "ON" THEN 13 ELSE 11

\* the code of the first check that fails, in the order of the grammar's checks, "none" when
\* every check passes
FirstFailing(w) ==
  IF ~IsCanonicalPositive(w[2]) THEN "AM01"
  ELSE IF ~PairMatches(w) THEN "SY02"
  ELSE IF ~IsIdentifier(w[6]) THEN "AC04"
  ELSE IF Len(w) >= 10 /\ ~FourMatch(w) THEN "SY02"
  ELSE IF Len(w) >= 11 /\ ~IsIdentifier(w[11]) THEN "AC04"
  ELSE IF Len(w) >= 11 /\ w[6] = w[11] THEN "AC02"
  ELSE IF Len(w) < 11 THEN "SY01"
  ELSE IF DateClauseFails(w) THEN "DT01"
  ELSE IF Len(w) > CompleteLength(w) THEN "SY02"
  ELSE "none"

ReachesDateClause(w) ==
  /\ IsTyped(w)
  /\ Len(w) >= 12
  /\ IsCanonicalPositive(w[2])
  /\ KeywordsMatch(w)
  /\ IsIdentifier(w[6]) /\ IsIdentifier(w[11]) /\ w[6] # w[11]
  /\ toUpperCase(w[12]) = "ON"

\* C20: when token 11 is ON the token at position 12 is accepted as the date exactly when it
\* is four digits, '-', two digits, '-', two digits with a month in 1..12 and a day of that
\* month, February having 29 days exactly in leap years; any other token, and ON with no
\* token after it, gives DT01.
C20_DateAccepted ==
  (JustParsed /\ ReachesDateClause(Words)) =>
    (parseResult.success \/ parseResult.error.status_code # "DT01")
      <=> (Len(Words) >= 13 /\ IsCalendarDate(Words[13]))

\* C21: a failure of the date clause (DT01) still echoes the type, the integer amount, the
\* upper-cased currency and both account identifiers; execute_by is the date token as
\* written, null only when ON is the last token; accounts holds the caller's entries of
\* both identifiers.
C21_DateFailureEcho ==
  (Serviced /\ ~Threw(outcome) /\ outcome.status_code = "DT01") =>
    /\ outcome.status = "failed"
    /\ outcome.type = Some(FirstWord(Words))
    /\ IsCanonicalPositive(Words[2])
    /\ outcome.amount = Some(NumeralValue(Words[2]))
    /\ outcome.currency = Some(toUpperCase(Words[3]))
    /\ outcome.debit_account = DebitToken(Words)
    /\ outcome.credit_account = CreditToken(Words)
    /\ outcome.debit_account # Null /\ outcome.credit_account # Null
    /\ outcome.execute_by = IF Len(Words) >= 13 THEN Some(Words[13]) ELSE Null
    /\ Len(Words) < 13 => Len(Words) = 12 /\ toUpperCase(Words[12]) = "ON"
    /\ outcome.accounts = Referenced({ outcome.debit_account, outcome.credit_account })

C21_Witness ==
  /\ Serviced /\ ~Threw(outcome) /\ outcome.status_code = "DT01"
  /\ outcome.execute_by = Some("2026/11/07")
  /\ outcome.currency = Some("USD")
  /\ Len(outcome.accounts) = 3

\* the first eleven tokens pass every check of the grammar
LeadingValid(w) ==
  /\ IsTyped(w)
  /\ Len(w) >= 11
  /\ IsCanonicalPositive(w[2])
  /\ KeywordsMatch(w)
  /\ IsIdentifier(w[6]) /\ IsIdentifier(w[11]) /\ w[6] # w[11]

\* the date clause accepts the token as a date
DateAccepted(token) == parseDate(Some(token)) # Null

InvalidIdReason(isDebitRole) ==
  IF isDebitRole THEN "DEBIT_ACCOUNT_INVALID" ELSE "CREDIT_ACCOUNT_INVALID"

\* the checks before the first identifier pass, and those before the second
FirstIdReached(w) == IsTyped(w) /\ IsCanonicalPositive(w[2]) /\ PairMatches(w)

SecondIdReached(w) == FirstIdReached(w) /\ IsIdentifier(w[6]) /\ Len(w) >= 11 /\ FourMatch(w)

\* C23: an identifier is accepted exactly when each of its characters is an ASCII letter, a
\* digit, '-', '.' or '@'; an identifier with another character gives AC04, with the
\* debit-side reason when it is in the debit role (position 5 of DEBIT, position 10 of
\* CREDIT) and with the credit-side reason when it is in the credit role.
C23_IdentifierCharset ==
  (JustParsed /\ ~Threw(parseResult) /\ IsTyped(Words)) =>
    /\ (FirstIdReached(Words) /\ ~IsIdentifier(Words[6])) =>
         /\ ~parseResult.success
         /\ parseResult.error.status_code = "AC04"
         /\ parseResult.error.status_reason = InvalidIdReason(FirstWord(Words) = "DEBIT")
    /\ (SecondIdReached(Words) /\ ~IsIdentifier(Words[11])) =>
         /\ ~parseResult.success
         /\ parseResult.error.status_code = "AC04"
         /\ parseResult.error.status_reason = InvalidIdReason(FirstWord(Words) = "CREDIT")
    /\ (~parseResult.success /\ parseResult.error.status_code = "AC04") =>
         \/ FirstIdReached(Words) /\ ~IsIdentifier(Words[6])
         \/ SecondIdReached(Words) /\ ~IsIdentifier(Words[11])
    /\ parseResult.success => IsIdentifier(Words[6]) /\ IsIdentifier(Words[11])

\* a CREDIT instruction whose debit identifier, at position 10, has a character too many
C23_Witness ==
  /\ JustParsed
  /\ FirstWord(Words) = "CREDIT"
  /\ SecondIdReached(Words)
  /\ Words[11] = "z{"
  /\ parseResult.error.status_code = "AC04"
  /\ parseResult.error.status_reason = "DEBIT_ACCOUNT_INVALID"

\* C24: in every failed outcome of the resolver (AC03, CU02, CU01, AC01) each entry of
\* accounts has balance and balance_before equal to the caller's balance of that entry, and
\* accounts is the sequence collected before the first check: the caller's entries of the
\* two identifiers in the caller's order.
C24_FailedKeepsBalances ==
  (Resolved /\ ~Threw(resolved) /\ resolved.status = "failed") =>
    /\ resolved.status_code \in { "AC03", "CU02", "CU01", "AC01" }
    /\ \A i \in 1..Len(resolved.accounts) :
         resolved.accounts[i].balance = resolved.accounts[i].balance_before
    /\ [ i \in 1..Len(resolved.accounts) |->
           [ id |-> resolved.accounts[i].id, balance |-> resolved.accounts[i].balance,
             currency |-> resolved.accounts[i].currency ] ]
         = SelectSeq(accounts, LAMBDA a : Some(a.id) \in { parseResult.data.debitAccount,
                                                           parseResult.data.creditAccount })

\* a currency mismatch between two accounts of the caller, one of them listed twice
C24_Witness ==
  /\ Resolved /\ ~Threw(resolved)
  /\ resolved.status_code = "CU01"
  /\ Len(resolved.accounts) = 3
  /\ \E i \in 1..3 : resolved.accounts[i].balance = 2

\* the code of the first resolver check that fails, "none" when the five checks pass
FirstFailingResolverCheck ==
  IF ~BothResolve THEN "AC03"
  ELSE IF parseResult.data.currency[1] \notin { "NGN", "USD", "GBP", "GHS" } THEN "CU02"
  ELSE IF ~CurrenciesAgree THEN "CU01"
  ELSE IF ~FundsSuffice THEN "AC01"
  ELSE "none"

FutureDated == Dated /\ CivilDay(parseResult.data.executeBy[1]) > UtcDay

\* C25: the timing is decided only after the five resolver checks: an instruction dated in
\* the future with a missing account, an unsupported or mismatched currency or a debit
\* balance below the amount fails with AC03, CU02, CU01 or AC01 and is never pending; a
\* pending outcome implies that the five checks held.
C25_ChecksBeforeTiming ==
  (Resolved /\ ~Threw(resolved)) =>
    /\ (FutureDated /\ FirstFailingResolverCheck # "none") =>
         /\ resolved.status = "failed"
         /\ resolved.status_code = FirstFailingResolverCheck
    /\ resolved.status = "pending" => PassesAllChecks

\* a transfer for tomorrow from an account that holds less than the amount
C25_Witness ==
  /\ Resolved /\ ~Threw(resolved)
  /\ FutureDated
  /\ BothResolve /\ CurrenciesAgree /\ ~FundsSuffice
  /\ resolved.status_code = "AC01"

Separators == { " ", "\t", "\n", "\r" }

RECURSIVE TokensFrom(_, _, _)
\* the maximal runs of characters other than separators, from the i-th character on, cur
\* being the run that ends before it
TokensFrom(text, i, cur) ==
  IF i > Len(text) THEN IF cur = "" THEN << >> ELSE << cur >>
  ELSE IF Ch(text, i) \in Separators
       THEN (IF cur = "" THEN << >> ELSE << cur >>) \o TokensFrom(text, i + 1, "")
       ELSE TokensFrom(text, i + 1, cur \o Ch(text, i))

Tokens(text) == TokensFrom(text, 1, "")

\* C26: the tokens are split on runs of space, tab, newline and carriage return and none is
\* empty: parseInstruction gives the same result for an instruction and for its tokens
\* joined by single spaces, whatever runs of those four characters stand between, before
\* and after the tokens, and no token contains one of the four characters.
C26_Tokenization ==
  JustParsed =>
    /\ parseResult = parseInstruction(Join(Tokens(instruction)))
    /\ \A k \in 1..Len(Words) :
         /\ Words[k] # ""
         /\ \A i \in 1..Len(Words[k]) : Ch(Words[k], i) \notin Separators

\* thirteen tokens separated by carriage returns, line feeds, spaces and tabs
C26_Witness ==
  /\ JustParsed
  /\ parseResult.success
  /\ Len(Words) = 13
  /\ Len(instruction) > Len(Join(Words)) + 4
  /\ \E i \in 1..Len(instruction) : Ch(instruction, i) = "\r"
  /\ \E i \in 1..Len(instruction) : Ch(instruction, i) = "\t"
  /\ Ch(instruction, 1) = "\n"

\* C27: every successful result of parseInstruction has type DEBIT or CREDIT, an integer
\* amount above 0, the upper-cased token at position 2 as currency, two identifiers that are
\* not null, are of the identifier charset and differ, and an executeBy that is null or a
\* date string the resolver's date parser accepts, so that the resolver never compares a
\* null date.
C27_SuccessfulParse ==
  (Parsed /\ ~Threw(parseResult) /\ parseResult.success) =>
    /\ parseResult.data.type \in { Some("DEBIT"), Some("CREDIT") }
    /\ parseResult.data.type = Some(FirstWord(Words))
    /\ Len(parseResult.data.amount) = 1
    /\ parseResult.data.amount[1] \in Nat \ { 0 }
    /\ parseResult.data.currency = Some(toUpperCase(Words[3]))
    /\ parseResult.data.debitAccount # Null /\ parseResult.data.creditAccount # Null
    /\ IsIdentifier(parseResult.data.debitAccount[1])
    /\ IsIdentifier(parseResult.data.creditAccount[1])
    /\ parseResult.data.debitAccount # parseResult.data.creditAccount
    /\ parseResult.data.executeBy # Null =>
         /\ Len(parseResult.data.executeBy[1]) = 10
         /\ parseDate(parseResult.data.executeBy) # Null

\* the resolver has read the date of a CREDIT instruction written in lower case
C27_Witness ==
  /\ Resolved
  /\ parseResult.success
  /\ parseResult.data.type = Some("CREDIT")
  /\ Words[3] = "usd"
  /\ parseResult.data.currency = Some("USD")
  /\ parseResult.data.executeBy = Some(Tomorrow)
  /\ parseDate(resolved.execute_by) # Null

\* the CREDIT instruction with the amount, currency, identifiers and date clause of the
\* DEBIT instruction w
Mirror(w) ==
  << "CREDIT", w[2], w[3], "TO", "ACCOUNT", w[11], "FOR", "DEBIT", "FROM", "ACCOUNT", w[6] >>
    \o SubSeq(w, 12, Len(w))

\* a DEBIT instruction of the grammar's form, whatever its amount, currency, identifiers and
\* date are
IsDebitForm(w) ==
  /\ Len(w) >= 11
  /\ FirstWord(w) = "DEBIT"
  /\ KeywordsMatch(w)

MirrorOutcome ==
  processTransactionService([ instruction |-> Join(Mirror(Words)), accounts |-> accounts ])

\* the fields two mirrored outcomes share
SharedFields(o) ==
  << o.status, o.status_code, o.amount, o.currency, o.debit_account, o.credit_account,
     o.execute_by, o.accounts >>

\* C28: the two grammars mirror each other: 'CREDIT <amount> <currency> TO ACCOUNT <x> FOR
\* DEBIT FROM ACCOUNT <y> [ON <date>]' and 'DEBIT <amount> <currency> FROM ACCOUNT <y> FOR
\* CREDIT TO ACCOUNT <x> [ON <date>]' give, for the same account list, outcomes with the same
\* status, status_code, amount, currency, debit_account, credit_account, execute_by and
\* accounts, and with the types CREDIT and DEBIT.
C28_MirrorGrammars ==
  (Serviced /\ ~Threw(outcome) /\ IsDebitForm(Words)) =>
    /\ ~Threw(MirrorOutcome)
    /\ SharedFields(MirrorOutcome) = SharedFields(outcome)
    /\ outcome.type = Some("DEBIT")
    /\ MirrorOutcome.type = Some("CREDIT")

\* a transfer executed alike in both forms
C28_Witness ==
  /\ Serviced /\ ~Threw(outcome) /\ IsDebitForm(Words)
  /\ Len(Words) = 13
  /\ outcome.status = "successful"
  /\ MirrorOutcome.status = "successful"
  /\ MirrorOutcome.type = Some("CREDIT")
  /\ \E i \in 1..Len(outcome.accounts) : outcome.accounts[i].balance = 0

\* the positions of the outcome's accounts whose balance was changed, in the role of id
ChangedEntries(id) ==
  { i \in 1..Len(outcome.accounts) :
      /\ Some(outcome.accounts[i].id) = id
      /\ outcome.accounts[i].balance # outcome.accounts[i].balance_before }

\* C29: for every caller list, also one that names an identifier more than once, the
\* outcome's accounts has at most two entries and at most one per referenced identifier,
\* and an executed transfer changes the balance of exactly one debit entry and of exactly
\* one credit entry.
C29_AtMostOneEntryPerId ==
  (Serviced /\ ~Threw(outcome)) =>
    /\ Len(outcome.accounts) <= 2
    /\ \A i, j \in 1..Len(outcome.accounts) :
         outcome.accounts[i].id = outcome.accounts[j].id => i = j
    /\ outcome.status = "successful" =>
         /\ Cardinality(ChangedEntries(outcome.debit_account)) = 1
         /\ Cardinality(ChangedEntries(outcome.credit_account)) = 1

\* C30: when every balance of the caller's list is at least 0, every balance and every
\* balance_before of every outcome's accounts is at least 0: an executed debit never takes
\* a returned balance below zero.
C30_NoNegativeBalance ==
  (Serviced /\ ~Threw(outcome) /\ \A i \in 1..Len(accounts) : accounts[i].balance >= 0) =>
    \A i \in 1..Len(outcome.accounts) :
      outcome.accounts[i].balance >= 0 /\ outcome.accounts[i].balance_before >= 0

====
